---- MODULE Spec2Model ----
(***************************************************************************)
(* Plant disease detection: the request pipeline of the binary app         *)
(* (app.py) and of the enhanced 38-class app (app_enhanced.py), with the   *)
(* disease-information lookup of utils.py.                                 *)
(*                                                                         *)
(* One run of a Streamlit script is one request: main() is executed from   *)
(* top to bottom, and pc is the position of that run.  Probabilities are   *)
(* counted in units of 1/Denom; class scores in abstract score units.      *)
(***************************************************************************)
EXTENDS Integers, Sequences, FiniteSets, TLC

\* ---------------------------------------------------------------- bounds
\* A probability p of the binary model is the integer p with value p/Denom.
Denom == 100
\* The scores the multi-class model gives its likely classes: 1..MaxScore.
MaxScore == 2
\* Uploaded files hold 0..MaxBytes bytes.
MaxBytes == 2

\* ------------------------------------------------- strings (Python str)
UpperAlpha == "ABCDEFGHIJKLMNOPQRSTUVWXYZ"
LowerAlpha == "abcdefghijklmnopqrstuvwxyz"

\* The i-th character of s, as a string of length 1.
CharAt(s, i) == SubSeq(s, i, i)

\* str.lower() of the letters A-Z.
LowerOf ==
  [c \in {CharAt(UpperAlpha, i) : i \in 1..Len(UpperAlpha)} |->
     CharAt(LowerAlpha, CHOOSE i \in 1..Len(UpperAlpha) : CharAt(UpperAlpha, i) = c)]

\* str.lower() of one character: A-Z go to a-z, anything else is kept.
LowerChar(c) == IF c \in DOMAIN LowerOf THEN LowerOf[c] ELSE c

\* str.lower()
RECURSIVE lower(_)
lower(s) ==
  IF Len(s) = 0 THEN ""
  ELSE LowerChar(CharAt(s, 1)) \o lower(SubSeq(s, 2, Len(s)))

\* str.replace(old, new) for a one-character old and new.
RECURSIVE replace(_, _, _)
replace(s, old, new) ==
  IF Len(s) = 0 THEN ""
  ELSE (IF CharAt(s, 1) = old THEN new ELSE CharAt(s, 1))
       \o replace(SubSeq(s, 2, Len(s)), old, new)

\* Python's `sub in s`.
Contains(sub, s) ==
  \E i \in 1..(Len(s) - Len(sub) + 1) : SubSeq(s, i, i + Len(sub) - 1) = sub

\* str.split(sep): the pieces between the non-overlapping occurrences of
\* sep, scanned from the left.
RECURSIVE split(_, _)
split(s, sep) ==
  LET n == Len(sep)
      at == {i \in 1..(Len(s) - n + 1) : SubSeq(s, i, i + n - 1) = sep}
  IN IF at = {} THEN <<s>>
     ELSE LET i == CHOOSE j \in at : \A k \in at : j <= k
          IN <<SubSeq(s, 1, i - 1)>> \o split(SubSeq(s, i + n, Len(s)), sep)

\* ------------------------------------------------------ the class labels
\* app_enhanced.py CLASS_LABELS; output index i (from 0) is CLASS_LABELS[i + 1].
CLASS_LABELS ==
  << "Apple___Apple_scab",
     "Apple___Black_rot",
     "Apple___Cedar_apple_rust",
     "Apple___healthy",
     "Blueberry___healthy",
     "Cherry_(including_sour)___Powdery_mildew",
     "Cherry_(including_sour)___healthy",
     "Corn_(maize)___Cercospora_leaf_spot Gray_leaf_spot",
     "Corn_(maize)___Common_rust_",
     "Corn_(maize)___Northern_Leaf_Blight",
     "Corn_(maize)___healthy",
     "Grape___Black_rot",
     "Grape___Esca_(Black_Measles)",
     "Grape___Leaf_blight_(Isariopsis_Leaf_Spot)",
     "Grape___healthy",
     "Orange___Haunglongbing_(Citrus_greening)",
     "Peach___Bacterial_spot",
     "Peach___healthy",
     "Pepper,_bell___Bacterial_spot",
     "Pepper,_bell___healthy",
     "Potato___Early_blight",
     "Potato___Late_blight",
     "Potato___healthy",
     "Raspberry___healthy",
     "Soybean___healthy",
     "Squash___Powdery_mildew",
     "Strawberry___Leaf_scorch",
     "Strawberry___healthy",
     "Tomato___Bacterial_spot",
     "Tomato___Early_blight",
     "Tomato___Late_blight",
     "Tomato___Leaf_Mold",
     "Tomato___Septoria_leaf_spot",
     "Tomato___Spider_mites Two-spotted_spider_mite",
     "Tomato___Target_Spot",
     "Tomato___Tomato_Yellow_Leaf_Curl_Virus",
     "Tomato___Tomato_mosaic_virus",
     "Tomato___healthy" >>

\* CLASS_LABELS[idx] of the source, idx counted from 0.
LabelAt(idx) == CLASS_LABELS[idx + 1]

NumClasses == Len(CLASS_LABELS)

\* ------------------------------------------- utils.py get_disease_info
\* The disease_info dict, in its declared (iteration) order.
disease_info_table ==
  << [key |-> "Apple_scab",
      description |-> "A fungal disease causing dark, scabby lesions on leaves and fruit.",
      treatment |-> "Remove infected leaves, apply fungicides, and ensure good air circulation."],
     [key |-> "Black_rot",
      description |-> "A fungal disease causing circular leaf spots and fruit rot.",
      treatment |-> "Prune infected areas, apply fungicides, and maintain orchard sanitation."],
     [key |-> "Cedar_apple_rust",
      description |-> "A fungal disease causing orange spots on leaves.",
      treatment |-> "Remove nearby cedar trees, apply fungicides in spring."],
     [key |-> "Powdery_mildew",
      description |-> "A fungal disease creating white powdery growth on leaves.",
      treatment |-> "Improve air circulation, apply sulfur-based fungicides."],
     [key |-> "Common_rust",
      description |-> "A fungal disease causing reddish-brown pustules on leaves.",
      treatment |-> "Use resistant varieties, apply fungicides if severe."],
     [key |-> "Northern_Leaf_Blight",
      description |-> "A fungal disease causing long, elliptical lesions on leaves.",
      treatment |-> "Rotate crops, use resistant hybrids, apply fungicides."],
     [key |-> "Cercospora_leaf_spot",
      description |-> "A fungal disease causing gray leaf spots.",
      treatment |-> "Crop rotation, fungicide application, remove infected debris."],
     [key |-> "Bacterial_spot",
      description |-> "A bacterial disease causing dark spots on leaves and fruit.",
      treatment |-> "Use disease-free seeds, apply copper-based bactericides."],
     [key |-> "Early_blight",
      description |-> "A fungal disease causing dark spots with concentric rings.",
      treatment |-> "Remove infected leaves, apply fungicides, practice crop rotation."],
     [key |-> "Late_blight",
      description |-> "A serious disease causing water-soaked lesions and plant death.",
      treatment |-> "Apply fungicides preventatively, destroy infected plants immediately."],
     [key |-> "Leaf_Mold",
      description |-> "A fungal disease causing yellow spots on upper leaf surfaces.",
      treatment |-> "Improve ventilation, reduce humidity, apply fungicides."],
     [key |-> "Septoria_leaf_spot",
      description |-> "A fungal disease causing circular spots with gray centers.",
      treatment |-> "Remove infected leaves, apply fungicides, mulch around plants."],
     [key |-> "Target_Spot",
      description |-> "A fungal disease causing concentric ring patterns on leaves.",
      treatment |-> "Practice crop rotation, apply fungicides, maintain plant spacing."],
     [key |-> "Tomato_Yellow_Leaf_Curl_Virus",
      description |-> "A viral disease causing yellowing and curling of leaves.",
      treatment |-> "Control whitefly vectors, remove infected plants, use resistant varieties."],
     [key |-> "Tomato_mosaic_virus",
      description |-> "A viral disease causing mottled leaves and reduced fruit quality.",
      treatment |-> "Use virus-free seeds, sanitize tools, remove infected plants."],
     [key |-> "healthy",
      description |-> "No disease detected. The plant appears healthy!",
      treatment |-> "Continue regular maintenance and monitoring."] >>

\* The dict returned when no key matches (utils.py, the final return).
NotAvailable ==
  [description |-> "Disease information not available.",
   treatment |-> "Consult with a local agricultural extension service."]

\* The value stored under a key of disease_info.
InfoOf(e) == [description |-> e.description, treatment |-> e.treatment]

\* key.lower() of the k-th key.
lower_key ==
  [k \in 1..Len(disease_info_table) |-> lower(disease_info_table[k].key)]

\* The loop with the last matching key winning instead of the first.
RECURSIVE disease_info_scan_last(_, _)
disease_info_scan_last(lower_name, k) ==
  IF k > Len(disease_info_table) THEN NotAvailable
  ELSE LET later == disease_info_scan_last(lower_name, k + 1)
       IN IF later # NotAvailable THEN later
          ELSE IF Contains(lower_key[k], lower_name)
               THEN InfoOf(disease_info_table[k])
               ELSE NotAvailable

\* The for loop of get_disease_info from the k-th key on: the first key whose
\* lower-cased form is in the lower-cased name returns its entry.
RECURSIVE disease_info_scan(_, _)
disease_info_scan(lower_name, k) ==
  IF k > Len(disease_info_table) THEN NotAvailable
  ELSE IF Contains(lower_key[k], lower_name)
       THEN InfoOf(disease_info_table[k])
       ELSE disease_info_scan(lower_name, k + 1)

get_disease_info(disease_name) == disease_info_scan(lower(disease_name), 1)

\* ------------------------------------------------------------- images
\* A PIL image: its mode and the channel values of a pixel in that mode.
NoImage == [mode |-> "none", data |-> <<>>]

\* The palette of the palette-mode sample: colour index -> (r, g, b).
Palette == <<<<0, 0, 0>>, <<200, 100, 50>>>>

SampleImages ==
  { [mode |-> "RGB", data |-> <<200, 100, 50>>],
    [mode |-> "RGB", data |-> <<30, 30, 30>>],
    [mode |-> "L", data |-> <<128>>],
    [mode |-> "RGBA", data |-> <<10, 20, 30, 255>>],
    [mode |-> "P", data |-> <<1>>] }

\* Image.convert('RGB')
convert_RGB(img) ==
  [mode |-> "RGB",
   data |-> CASE img.mode = "RGB" -> img.data
              [] img.mode = "L" -> <<img.data[1], img.data[1], img.data[1]>>
              [] img.mode = "RGBA" -> SubSeq(img.data, 1, 3)
              [] img.mode = "P" -> Palette[img.data[1] + 1]]

\* cv2.imdecode(np_arr, cv2.IMREAD_COLOR): three channels, in B, G, R order.
cv2_imdecode(img) ==
  LET rgb == convert_RGB(img).data IN <<rgb[3], rgb[2], rgb[1]>>

\* cv2.cvtColor(cv_img, cv2.COLOR_BGR2RGB): the first and third channel swap.
cv2_cvtColor_BGR2RGB(px) == <<px[3], px[2], px[1]>>

\* Image.fromarray of an H x W x 3 uint8 array.
Image_fromarray(px) == [mode |-> "RGB", data |-> px]

\* ------------------------------------------------------------ uploads
\* An uploaded file: its size in bytes, whether PIL and OpenCV can decode
\* its bytes, and the picture the bytes hold (NoImage: they hold none).
NoFile == [size |-> -1, pil |-> FALSE, cv |-> FALSE, img |-> NoImage]

Uploads ==
  {[size |-> n, pil |-> FALSE, cv |-> FALSE, img |-> NoImage] : n \in 0..MaxBytes}
  \cup {[size |-> n, pil |-> d[1], cv |-> d[2], img |-> i] :
          n \in 1..MaxBytes, i \in SampleImages,
          d \in {<<TRUE, TRUE>>, <<TRUE, FALSE>>, <<FALSE, TRUE>>}}

\* The uploads the enhanced app is run on: it has one decoder only.
EnhUploads ==
  {f \in Uploads : /\ f.size <= 1
                   /\ f.cv = f.pil
                   /\ f.img.mode \in {"none", "RGBA", "L"}}

\* str(e) of the exceptions the decoders raise.
PilMessage == "cannot identify image file"
CvMessage(has_cv2) ==
  IF has_cv2 THEN "OpenCV failed to decode image" ELSE "name 'cv2' is not defined"
PredictMessage == "Input 0 of layer is incompatible with the layer"

\* ------------------------------------------------- app.py predict_disease
\* The outputs model.predict gives the binary app, in units of 1/Denom.
PValues == {0, 12, Denom \div 2, (Denom \div 2) + 1, 81, Denom}

\* predict_disease with the threshold test written >= instead of >.
predict_disease_inclusive(p) ==
  IF 2 * p >= Denom
  THEN [label |-> "Diseased", confidence |-> p, raw |-> p]
  ELSE [label |-> "Healthy", confidence |-> Denom - p, raw |-> p]

\* app.py predict_disease, from the model's output p = predictions[0][0].
predict_disease(p) ==
  IF 2 * p > Denom
  THEN [label |-> "Diseased", confidence |-> p, raw |-> p]
  ELSE [label |-> "Healthy", confidence |-> Denom - p, raw |-> p]

\* ---------------------------------------- app_enhanced.py predict_disease
\* The classes the sample score vectors make likely; every other class scores 0.
HotIndices == {3, 7, 12, 27, 28, 37}

ScoreVectors ==
  { [i \in 0..(NumClasses - 1) |-> IF i \in HotIndices THEN h[i] ELSE 0] :
      h \in [HotIndices -> 1..MaxScore] }

\* np.argmax: one pass from index i on, keeping the index of the largest value
\* seen; only a strictly larger value replaces it.
RECURSIVE argmax_scan(_, _, _)
argmax_scan(a, i, best) ==
  IF i \notin DOMAIN a THEN best
  ELSE argmax_scan(a, i + 1, IF a[i] > a[best] THEN i ELSE best)

\* np.argmax with ties going to the last index: the scan replaces on >=.
RECURSIVE argmax_scan_last(_, _, _)
argmax_scan_last(a, i, best) ==
  IF i \notin DOMAIN a THEN best
  ELSE argmax_scan_last(a, i + 1, IF a[i] >= a[best] THEN i ELSE best)

np_argmax_last(a) == argmax_scan_last(a, 1, 0)

np_argmax(a) == argmax_scan(a, 1, 0)

\* app_enhanced.py predict_disease, from predictions[0].
enh_predict_disease(scores) ==
  LET predicted_class == np_argmax(scores)
  IN [label |-> LabelAt(predicted_class),
      confidence |-> scores[predicted_class],
      raw |-> scores]

\* The largest value a takes on the indices in S.
MaxOver(a, S) == CHOOSE m \in {a[i] : i \in S} : \A i \in S : a[i] <= m

\* The k largest of a over the indices rest, largest first.  np.argsort's
\* default sort is not stable: indices of equal value come in any order.
RECURSIVE take_largest(_, _, _)
take_largest(a, rest, k) ==
  IF k = 0 \/ rest = {} THEN {<<>>}
  ELSE LET m == MaxOver(a, rest)
       IN UNION { { <<i>> \o t : t \in take_largest(a, rest \ {i}, k - 1) } :
                  i \in {j \in rest : a[j] = m} }

\* The values np.argsort(all_predictions)[-5:][::-1] can take.
top_5_outcomes(all_predictions) == take_largest(all_predictions, DOMAIN all_predictions, 5)

\* main()'s parsing without the replacement of underscores.
parse_label_raw(label) ==
  LET parts == split(label, "___")
  IN [plant |-> parts[1],
      disease |-> IF Len(parts) > 1 THEN parts[2] ELSE "Unknown"]

\* main()'s parsing of a label: (plant, disease).
parse_label(label) ==
  LET parts == split(label, "___")
  IN [plant |-> replace(parts[1], "_", " "),
      disease |-> IF Len(parts) > 1 THEN replace(parts[2], "_", " ") ELSE "Unknown"]

\* ------------------------------------------------------------- state
VARIABLES
  app,              \* the script that runs: "app", "app_enhanced" or "utils"
  HAS_CV2,          \* app.py: the import of cv2 succeeded
  UTILS_AVAILABLE,  \* app_enhanced.py: the import of utils succeeded
  pc,               \* the position of the current run of the script
  uploaded_file,    \* what st.file_uploader returned
  image,            \* the decoded image
  pil_err,          \* load_uploaded_image: str(pil_err), "" while none
  raised,           \* str(e) of the exception raised in this run, "" while none
  predictions,      \* what model.predict returned
  result,           \* what predict_disease returned
  plant_name,       \* app_enhanced.py main: parts[0] with spaces
  disease_name,     \* app_enhanced.py main: parts[1] with spaces
  disease_info,     \* app_enhanced.py main: what get_disease_info returned
  top_5_idx,        \* app_enhanced.py main: the Top 5 class indices
  ui,               \* the elements this run has rendered, in order
  calls,            \* the library and helper calls this run has made, in order
  CLAHE_AVAILABLE,  \* app_enhanced.py: whether `import cv2` worked
  artifact,         \* the state of the file models/best_model.h5
  cache,            \* the st.cache_resource entry of the load function
  load_log,         \* the outcomes of the load function's executions, in order
  model,            \* what load_model() returned to the current run
  sess,             \* concurrent sessions: each one's position and its model
  lock,             \* the session computing the cache entry, 0 while none
  pre,              \* a call of preprocess_image on its own: arguments and result
  loader            \* a call of load_model_with_download: inputs, position, result

vars ==
  <<app, HAS_CV2, UTILS_AVAILABLE, pc, uploaded_file, image, pil_err, raised,
    predictions, result, plant_name, disease_name, disease_info, top_5_idx, ui, calls,
    CLAHE_AVAILABLE, artifact, cache, load_log, model, sess, lock, pre, loader>>

NoPredictions == <<>>
NoResult == [label |-> "", confidence |-> 0, raw |-> <<>>]
NoInfo == [description |-> "", treatment |-> ""]

\* A rendered element: the Streamlit call and its text.
El(kind, text) == [kind |-> kind, text |-> text]

\* The values of `model`: Python's None, and the object that the n-th
\* execution of the load function built.
None == [kind |-> "None", id |-> 0]
ModelInstance(n) == [kind |-> "model", id |-> n]
NotLoaded == [kind |-> "unset", id |-> 0]

\* The file models/best_model.h5: not there, a model keras can load, or a
\* file keras.models.load_model raises on.
ArtifactStates == {"absent", "good", "corrupt"}

\* A st.cache_resource entry: none yet, or the value the function returned
\* together with the elements it rendered, which a later call replays.
NoEntry == [hit |-> FALSE, value |-> None, messages |-> <<>>]
Entry(value, messages) == [hit |-> TRUE, value |-> value, messages |-> messages]

\* The state of a process that has not called the load function yet.
ProcessStart ==
  /\ artifact \in ArtifactStates
  /\ cache = NoEntry
  /\ load_log = <<>>

\* No concurrent sessions are modelled.
SessionsIdle == sess = <<>> /\ lock = 0

\* No call of preprocess_image on its own is modelled.
NoTensor == [shape |-> <<>>, num |-> <<>>, den |-> 0]
PreIdle ==
  pre = [pc |-> "idle", image |-> NoImage, use_clahe |-> FALSE, out |-> NoTensor,
         steps |-> <<>>, raised |-> ""]

\* No call of load_model_with_download is modelled.
LoaderIdle ==
  loader = [pc |-> "idle", existed |-> FALSE, secrets |-> "none", gdrive |-> "fail",
            huggingface |-> "fail", result |-> NotLoaded, escaped |-> "",
            calls |-> <<>>, ui |-> <<>>]

\* The state of a run of the script that has not reached load_model() yet.
RunStart ==
  /\ pc = "load_model"
  /\ model = NotLoaded
  /\ uploaded_file = NoFile
  /\ image = NoImage
  /\ pil_err = ""
  /\ raised = ""
  /\ predictions = NoPredictions
  /\ result = NoResult
  /\ plant_name = ""
  /\ disease_name = ""
  /\ disease_info = NoInfo
  /\ top_5_idx = <<>>
  /\ ui = <<>>
  /\ calls = <<>>

\* The import outcomes at the top of the scripts. utils.py imports cv2
\* itself, so `from utils import ...` works only where `import cv2` does.
Init ==
  /\ app \in {"app", "app_enhanced"}
  /\ HAS_CV2 \in (IF app = "app" THEN BOOLEAN ELSE {FALSE})
  /\ UTILS_AVAILABLE \in (IF app = "app_enhanced" THEN BOOLEAN ELSE {FALSE})
  /\ CLAHE_AVAILABLE \in (IF app = "app_enhanced" /\ ~UTILS_AVAILABLE THEN BOOLEAN
                          ELSE {app = "app_enhanced"})
  /\ ProcessStart
  /\ SessionsIdle
  /\ PreIdle
  /\ LoaderIdle
  /\ RunStart

Modules == <<app, HAS_CV2, UTILS_AVAILABLE, CLAHE_AVAILABLE>>
Process == <<artifact, cache, load_log>>
Others == <<sess, lock, pre, loader>>
Env == <<Modules, Process, Others>>
Enhanced == <<plant_name, disease_name, disease_info, top_5_idx>>

\* ------------------------------------------------------ the model load
LoadErrorMessage == "Unable to open file (file signature not found)"
GdownMessage == "No module named 'gdown'"

\* app.py load_model(): what one execution returns, renders and records, given
\* the file's state; n is the number of this execution.
app_load_model(art, n) ==
  CASE art = "absent" ->
         [value |-> None, outcome |-> "not_found",
          messages |-> << El("error", "Model file not found at models/best_model.h5"),
                          El("info", "Please ensure the model file exists in the models directory.") >>]
    [] art = "corrupt" ->
         [value |-> None, outcome |-> "load_error",
          messages |-> << El("error", "Error loading model: " \o LoadErrorMessage) >>]
    [] art = "good" ->
         [value |-> ModelInstance(n), outcome |-> "loaded",
          messages |-> << El("success", "Model loaded successfully") >>]

\* app_enhanced.py load_model(); has_gdown is whether `import gdown` works.
enh_load_model(art, has_gdown, n) ==
  CASE art = "absent" /\ has_gdown ->
         [value |-> None, outcome |-> "not_found",
          messages |-> << El("info", "Downloading model from cloud storage..."),
                          El("warning", "Model file not found. Please configure model download."),
                          El("info", "To enable automatic model download") >>]
    [] art = "absent" /\ ~has_gdown ->
         [value |-> None, outcome |-> "not_found",
          messages |-> << El("info", "Downloading model from cloud storage..."),
                          El("error", "Error setting up model: " \o GdownMessage) >>]
    [] art = "corrupt" ->
         [value |-> None, outcome |-> "load_error",
          messages |-> << El("error", "Error loading model: " \o LoadErrorMessage) >>]
    [] art = "good" ->
         [value |-> ModelInstance(n), outcome |-> "loaded", messages |-> <<>>]

\* A cache that keeps a model but runs the function again after a None.
cache_resource_retry_none(entry, computed) ==
  IF entry.hit /\ entry.value # None THEN entry
  ELSE Entry(computed.value, computed.messages)

\* @st.cache_resource around a function without arguments, seen from one run:
\* a stored entry is returned and its elements replayed; otherwise the
\* function runs, and what it returned and rendered is stored.
cache_resource(entry, computed) ==
  IF entry.hit THEN entry ELSE Entry(computed.value, computed.messages)

\* app.py main(): model = load_model(); if model is None: st.stop().
AppLoadModel ==
  /\ app = "app" /\ pc = "load_model"
  /\ LET computed == app_load_model(artifact, Len(load_log) + 1)
         entry == cache_resource(cache, computed)
     IN /\ cache' = entry
        /\ load_log' = IF cache.hit THEN load_log ELSE Append(load_log, computed.outcome)
        /\ model' = entry.value
        /\ ui' = ui \o entry.messages
        /\ pc' = IF entry.value = None THEN "stopped" ELSE "upload"
  /\ calls' = Append(calls, "load_model")
  /\ UNCHANGED <<Modules, artifact, Others, Enhanced, uploaded_file, image, pil_err,
                 raised, predictions, result>>

\* app_enhanced.py main(): model = load_model(); if model is None: the error
\* and the setup instructions, and return.
EnhLoadModel ==
  /\ app = "app_enhanced" /\ pc = "load_model"
  /\ \E has_gdown \in BOOLEAN :
       LET computed == enh_load_model(artifact, has_gdown, Len(load_log) + 1)
           entry == cache_resource(cache, computed)
       IN /\ cache' = entry
          /\ load_log' = IF cache.hit THEN load_log ELSE Append(load_log, computed.outcome)
          /\ model' = entry.value
          /\ ui' = IF entry.value = None
                   THEN ui \o entry.messages
                           \o << El("error", "Model file not found!"),
                                 El("markdown", "Setup Instructions") >>
                   ELSE ui \o entry.messages
          /\ pc' = IF entry.value = None THEN "done" ELSE "upload"
  /\ calls' = Append(calls, "load_model")
  /\ UNCHANGED <<Modules, artifact, Others, Enhanced, uploaded_file, image, pil_err,
                 raised, predictions, result>>

\* ------------------------------------------------------- app.py main()
\* st.file_uploader and `if uploaded_file is not None` (the footer follows).
AppFileUploader ==
  /\ app = "app" /\ pc = "upload"
  /\ \E f \in Uploads \cup {NoFile} :
       /\ uploaded_file' = f
       /\ pc' = IF f = NoFile THEN "done" ELSE "read"
  /\ UNCHANGED <<Env, model, Enhanced, image, pil_err, raised, predictions, result, ui, calls>>

\* The except branch around load_uploaded_image: the error, the file's type
\* and size, the first bytes in hex, a hint, then st.stop().
LoadingFailed(e) ==
  /\ raised' = e
  /\ ui' = ui \o << El("error", "Error loading image: " \o e),
                    El("error", "File type, Size"),
                    El("code", "hex"),
                    El("info", "If this is a real PNG/JPEG, ensure it is not corrupted.") >>
  /\ pc' = "stopped"

\* load_uploaded_image without the check for no bytes.
LoadRead_NoEmptyCheck ==
  /\ app = "app" /\ pc = "read"
  /\ calls' = Append(calls, "read")
  /\ pc' = "pil"
  /\ UNCHANGED <<Env, model, Enhanced, uploaded_file, image, pil_err, raised, predictions,
                 result, ui>>

\* load_uploaded_image: seek, read, and the check for no bytes.
LoadRead ==
  /\ app = "app" /\ pc = "read"
  /\ calls' = Append(calls, "read")
  /\ IF uploaded_file.size = 0
     THEN LoadingFailed("Uploaded file is empty")
     ELSE pc' = "pil" /\ UNCHANGED <<raised, ui>>
  /\ UNCHANGED <<Env, model, Enhanced, uploaded_file, image, pil_err, predictions, result>>

\* What the first attempt returns: the image PIL opened and loaded.
pil_image(f) == f.img

\* load_uploaded_image, first attempt: Image.open and img.load.
LoadPil ==
  /\ app = "app" /\ pc = "pil"
  /\ calls' = Append(calls, "PIL.Image.open")
  /\ IF uploaded_file.pil
     THEN /\ image' = pil_image(uploaded_file)
          /\ pc' = "show"
          /\ UNCHANGED pil_err
     ELSE /\ pil_err' = PilMessage
          /\ pc' = "cv"
          /\ UNCHANGED image
  /\ UNCHANGED <<Env, model, Enhanced, uploaded_file, raised, predictions, result, ui>>

\* What the fallback returns when OpenCV decodes the bytes.
cv_image(f) == Image_fromarray(cv2_cvtColor_BGR2RGB(cv2_imdecode(f.img)))

\* The final error carrying the fallback's message only.
both_failed_cv_only(pil_e, cv_e) == "OpenCV error: " \o cv_e

\* The ValueError raised when both attempts failed.
both_failed(pil_e, cv_e) == "PIL error: " \o pil_e \o "; OpenCV error: " \o cv_e

\* load_uploaded_image, fallback: cv2.imdecode, cvtColor, Image.fromarray;
\* without cv2 the name is undefined and the NameError is caught like any other.
LoadCv ==
  /\ app = "app" /\ pc = "cv"
  /\ calls' = Append(calls, "cv2.imdecode")
  /\ IF HAS_CV2 /\ uploaded_file.cv
     THEN /\ image' = cv_image(uploaded_file)
          /\ pc' = "show"
          /\ UNCHANGED <<raised, ui>>
     ELSE /\ LoadingFailed(both_failed(pil_err, CvMessage(HAS_CV2)))
          /\ UNCHANGED image
  /\ UNCHANGED <<Env, model, Enhanced, uploaded_file, pil_err, predictions, result>>

\* st.image(image) in the first column.
AppShowImage ==
  /\ app = "app" /\ pc = "show"
  /\ ui' = Append(ui, El("image", image.mode))
  /\ pc' = "predict"
  /\ UNCHANGED <<Env, model, Enhanced, uploaded_file, image, pil_err, raised, predictions,
                 result, calls>>

\* The second column when predict_disease returns: the verdict and the metrics.
AppPredictOk ==
  /\ app = "app" /\ pc = "predict"
  /\ \E p \in PValues :
       /\ predictions' = <<p>>
       /\ result' = predict_disease(p)
       /\ ui' = ui \o << (IF lower(predict_disease(p).label) = "healthy"
                          THEN El("success", "Plant is Healthy!")
                          ELSE El("warning", "Plant Disease Detected!")),
                         El("metric", predict_disease(p).label) >>
  /\ calls' = calls \o <<"preprocess_image", "model.predict">>
  /\ pc' = "done"
  /\ UNCHANGED <<Env, model, Enhanced, uploaded_file, image, pil_err, raised>>

\* The second column when model.predict raises: the except branch reports it.
AppPredictRaises ==
  /\ app = "app" /\ pc = "predict"
  /\ calls' = calls \o <<"preprocess_image", "model.predict">>
  /\ raised' = PredictMessage
  /\ ui' = ui \o << El("error", "Error during prediction: " \o PredictMessage),
                    El("exception", PredictMessage) >>
  /\ pc' = "done"
  /\ UNCHANGED <<Env, model, Enhanced, uploaded_file, image, pil_err, predictions, result>>

\* ----------------------------------------------- app_enhanced.py main()
\* st.file_uploader and `if uploaded_file is not None`.
EnhFileUploader ==
  /\ app = "app_enhanced" /\ pc = "upload"
  /\ \E f \in EnhUploads \cup {NoFile} :
       /\ uploaded_file' = f
       /\ pc' = IF f = NoFile THEN "done" ELSE "open"
  /\ UNCHANGED <<Env, model, Enhanced, image, pil_err, raised, predictions, result, ui, calls>>

\* Image.open(uploaded_file) and st.image, outside any try: an exception
\* leaves main().
EnhOpenImage ==
  /\ app = "app_enhanced" /\ pc = "open"
  /\ calls' = Append(calls, "PIL.Image.open")
  /\ IF uploaded_file.pil
     THEN /\ image' = pil_image(uploaded_file)
          /\ ui' = ui \o <<El("image", uploaded_file.img.mode), El("caption", "Size | Format")>>
          /\ pc' = "predict"
          /\ UNCHANGED raised
     ELSE /\ raised' = PilMessage
          /\ pc' = "crashed"
          /\ UNCHANGED <<image, ui>>
  /\ UNCHANGED <<Env, model, Enhanced, uploaded_file, pil_err, predictions, result>>

\* The try block when predict_disease returns: the label is parsed and the
\* result box and the confidence are rendered.
EnhPredictOk ==
  /\ app = "app_enhanced" /\ pc = "predict"
  /\ \E scores \in ScoreVectors :
       LET r == enh_predict_disease(scores)
           parsed == parse_label(r.label)
       IN /\ predictions' = scores
          /\ result' = r
          /\ plant_name' = parsed.plant
          /\ disease_name' = parsed.disease
          /\ ui' = ui \o << (IF lower(parsed.disease) = "healthy"
                             THEN El("healthy-box", parsed.plant)
                             ELSE El("disease-box", parsed.plant \o ": " \o parsed.disease)),
                            El("metric", "Confidence Score") >>
  /\ calls' = calls \o <<"preprocess_image", "model.predict">>
  /\ pc' = "info"
  /\ UNCHANGED <<Env, model, uploaded_file, image, pil_err, raised, disease_info, top_5_idx>>

\* The except branch without its return: main() goes on to the sections below.
EnhPredictRaises_NoReturn ==
  /\ app = "app_enhanced" /\ pc = "predict"
  /\ calls' = calls \o <<"preprocess_image", "model.predict">>
  /\ raised' = PredictMessage
  /\ ui' = ui \o << El("error", "Error during prediction: " \o PredictMessage),
                    El("exception", PredictMessage) >>
  /\ pc' = "info"
  /\ UNCHANGED <<Env, model, Enhanced, uploaded_file, image, pil_err, predictions, result>>

\* The try block when the prediction raises: the error is shown and main()
\* returns.
EnhPredictRaises ==
  /\ app = "app_enhanced" /\ pc = "predict"
  /\ calls' = calls \o <<"preprocess_image", "model.predict">>
  /\ raised' = PredictMessage
  /\ ui' = ui \o << El("error", "Error during prediction: " \o PredictMessage),
                    El("exception", PredictMessage) >>
  /\ pc' = "done"
  /\ UNCHANGED <<Env, model, Enhanced, uploaded_file, image, pil_err, predictions, result>>

\* "Disease information and treatment": only with utils imported.
EnhDiseaseInfo ==
  /\ app = "app_enhanced" /\ pc = "info"
  /\ IF UTILS_AVAILABLE
     THEN LET info == get_disease_info(disease_name)
          IN /\ disease_info' = info
             /\ calls' = Append(calls, "get_disease_info")
             /\ ui' = ui \o << El("subheader", "Detailed Information"),
                               El("description", info.description),
                               El("treatment", info.treatment) >>
     ELSE UNCHANGED <<disease_info, calls, ui>>
  /\ pc' = "top5"
  /\ UNCHANGED <<Env, model, uploaded_file, image, pil_err, raised, predictions, result,
                 plant_name, disease_name, top_5_idx>>

\* The row the Top 5 list shows for each class index.
top_5_rows ==
  [idx \in 0..(NumClasses - 1) |->
     LET p == parse_label(LabelAt(idx))
     IN El("top5", p.plant \o " - " \o p.disease)]

\* One row of the Top 5 list.
top_5_row(idx) == top_5_rows[idx]

\* "Top 5 Predictions": np.argsort(all_predictions)[-5:][::-1], one row each.
EnhTop5 ==
  /\ app = "app_enhanced" /\ pc = "top5"
  /\ \E t \in top_5_outcomes(predictions) :
       /\ top_5_idx' = t
       /\ ui' = ui \o <<El("subheader", "Top 5 Predictions")>>
                   \o [i \in 1..Len(t) |-> top_5_row(t[i])]
  /\ calls' = Append(calls, "np.argsort")
  /\ pc' = "done"
  /\ UNCHANGED <<Env, model, uploaded_file, image, pil_err, raised, predictions, result,
                 plant_name, disease_name, disease_info>>

\* ------------------------------------------------------------ the runs
\* The user interacts again: Streamlit runs the script from the top. The file
\* models/best_model.h5 may have been put in place, replaced or removed since.
Rerun ==
  /\ app \in {"app", "app_enhanced"}
  /\ pc \in {"done", "stopped", "crashed"}
  /\ pc' = "load_model"
  /\ model' = NotLoaded
  /\ uploaded_file' = NoFile
  /\ image' = NoImage
  /\ pil_err' = ""
  /\ raised' = ""
  /\ predictions' = NoPredictions
  /\ result' = NoResult
  /\ plant_name' = ""
  /\ disease_name' = ""
  /\ disease_info' = NoInfo
  /\ top_5_idx' = <<>>
  /\ ui' = <<>>
  /\ calls' = <<>>
  /\ \E a \in ArtifactStates : artifact' = a
  /\ UNCHANGED <<Modules, cache, load_log, Others>>

Next ==
  \/ AppLoadModel
  \/ EnhLoadModel
  \/ AppFileUploader
  \/ LoadRead
  \/ LoadPil
  \/ LoadCv
  \/ AppShowImage
  \/ AppPredictOk
  \/ AppPredictRaises
  \/ EnhFileUploader
  \/ EnhOpenImage
  \/ EnhPredictOk
  \/ EnhPredictRaises
  \/ EnhDiseaseInfo
  \/ EnhTop5
  \/ Rerun

Spec == Init /\ [][Next]_vars

\* ------------------------------------------- get_disease_info on its own
\* The names get_disease_info is called with: the class labels, their
\* conditions as written, lower-cased and as main() derives them, the keys,
\* every pair of keys in one name, and names no key is part of.
InfoNames ==
  LET labels == {CLASS_LABELS[i] : i \in 1..Len(CLASS_LABELS)}
      conditions == {split(l, "___")[2] : l \in labels}
      keys == {disease_info_table[k].key : k \in 1..Len(disease_info_table)}
  IN labels \cup conditions \cup keys
     \cup {lower(c) : c \in conditions}
     \cup {replace(c, "_", " ") : c \in conditions}
     \cup {a \o "/" \o b : a, b \in keys}
     \cup {"Unknown_Condition_XYZ", "Unknown", "", "HEALTHY", "BACTERIAL_SPOT",
           "Bacterial-spot"}

InitInfo ==
  /\ app = "utils"
  /\ HAS_CV2 = FALSE
  /\ UTILS_AVAILABLE = TRUE
  /\ CLAHE_AVAILABLE = TRUE
  /\ artifact = "absent"
  /\ cache = NoEntry
  /\ load_log = <<>>
  /\ model = NotLoaded
  /\ SessionsIdle
  /\ PreIdle
  /\ LoaderIdle
  /\ pc = "info_call"
  /\ uploaded_file = NoFile
  /\ image = NoImage
  /\ pil_err = ""
  /\ raised = ""
  /\ predictions = NoPredictions
  /\ result = NoResult
  /\ plant_name = ""
  /\ disease_name \in InfoNames
  /\ disease_info = NoInfo
  /\ top_5_idx = <<>>
  /\ ui = <<>>
  /\ calls = <<>>

\* One call of get_disease_info(disease_name).
InfoCall ==
  /\ app = "utils" /\ pc = "info_call"
  /\ disease_info' = get_disease_info(disease_name)
  /\ calls' = Append(calls, "get_disease_info")
  /\ pc' = "info_done"
  /\ UNCHANGED <<Env, model, uploaded_file, image, pil_err, raised, predictions, result,
                 plant_name, disease_name, top_5_idx, ui>>

NextInfo == InfoCall

SpecInfo == InitInfo /\ [][NextInfo]_vars

\* --------------------------------- concurrent calls of the load function
\* The sessions (script threads) of one process that call load_model().
NumSessions == 3
Sessions == 1..NumSessions

\* The single run of one session with every run variable at rest: only the
\* sessions and the process state move.
RunIdle ==
  /\ pc = "sessions"
  /\ model = NotLoaded
  /\ uploaded_file = NoFile
  /\ image = NoImage
  /\ pil_err = ""
  /\ raised = ""
  /\ predictions = NoPredictions
  /\ result = NoResult
  /\ plant_name = ""
  /\ disease_name = ""
  /\ disease_info = NoInfo
  /\ top_5_idx = <<>>
  /\ ui = <<>>
  /\ calls = <<>>

Run == <<pc, model, uploaded_file, image, pil_err, raised, predictions, result,
         plant_name, disease_name, disease_info, top_5_idx, ui, calls>>

\* A session about to call load_model(): its position, what the call has
\* returned to it, and the elements the function rendered in it.
SessionCall == [pc |-> "call", model |-> NotLoaded, messages |-> <<>>]

InitCache ==
  /\ app \in {"app", "app_enhanced"}
  /\ HAS_CV2 = FALSE
  /\ UTILS_AVAILABLE = FALSE
  /\ CLAHE_AVAILABLE = FALSE
  /\ ProcessStart
  /\ sess = [t \in Sessions |-> SessionCall]
  /\ lock = 0
  /\ PreIdle
  /\ LoaderIdle
  /\ RunIdle

\* The load function's body as session t runs it.
load_model_body(has_gdown) ==
  IF app = "app" THEN app_load_model(artifact, Len(load_log) + 1)
  ELSE enh_load_model(artifact, has_gdown, Len(load_log) + 1)

\* st.cache_resource, first read: a stored entry is returned at once.
CacheRead(t) ==
  /\ sess[t].pc = "call"
  /\ sess' = [sess EXCEPT ![t] = IF cache.hit
                                  THEN [pc |-> "returned", model |-> cache.value,
                                        messages |-> cache.messages]
                                  ELSE [pc |-> "miss", model |-> NotLoaded,
                                        messages |-> <<>>]]
  /\ UNCHANGED <<Modules, Process, lock, pre, loader, Run>>

\* st.cache_resource, cache miss: the caller takes the entry's compute lock,
\* waiting while another session holds it.
CacheLock(t) ==
  /\ sess[t].pc = "miss"
  /\ lock = 0
  /\ lock' = t
  /\ sess' = [sess EXCEPT ![t].pc = "locked"]
  /\ UNCHANGED <<Modules, Process, pre, loader, Run>>

\* A cache that does not read the entry again once it holds the lock.
reread_skipped(entry) == FALSE

\* st.cache_resource: with the lock held the entry is read again.
reread_under_lock(entry) == entry.hit

\* The second read: another session may have stored the entry meanwhile.
CacheReread(t) ==
  /\ sess[t].pc = "locked"
  /\ IF reread_under_lock(cache)
     THEN /\ sess' = [sess EXCEPT ![t] = [pc |-> "returned", model |-> cache.value,
                                            messages |-> cache.messages]]
          /\ lock' = 0
     ELSE /\ sess' = [sess EXCEPT ![t].pc = "compute"]
          /\ lock' = lock
  /\ UNCHANGED <<Modules, Process, pre, loader, Run>>

\* The holder of the lock runs the load function.
CacheCompute(t) ==
  /\ sess[t].pc = "compute"
  /\ \E has_gdown \in (IF app = "app_enhanced" THEN BOOLEAN ELSE {TRUE}) :
       LET computed == load_model_body(has_gdown)
       IN /\ load_log' = Append(load_log, computed.outcome)
          /\ sess' = [sess EXCEPT ![t] = [pc |-> "write", model |-> computed.value,
                                            messages |-> computed.messages]]
  /\ UNCHANGED <<Modules, artifact, cache, lock, pre, loader, Run>>

\* The holder stores what the function returned and releases the lock.
CacheWrite(t) ==
  /\ sess[t].pc = "write"
  /\ cache' = Entry(sess[t].model, sess[t].messages)
  /\ lock' = 0
  /\ sess' = [sess EXCEPT ![t].pc = "returned"]
  /\ UNCHANGED <<Modules, artifact, load_log, pre, loader, Run>>

\* The session's next request calls load_model() again; the file may have
\* changed meanwhile.
SessionRerun(t) ==
  /\ sess[t].pc = "returned"
  /\ sess' = [sess EXCEPT ![t] = SessionCall]
  /\ \E a \in ArtifactStates : artifact' = a
  /\ UNCHANGED <<Modules, cache, load_log, lock, pre, loader, Run>>

NextCache ==
  \E t \in Sessions :
    \/ CacheRead(t)
    \/ CacheLock(t)
    \/ CacheReread(t)
    \/ CacheCompute(t)
    \/ CacheWrite(t)
    \/ SessionRerun(t)

SpecCache == InitCache /\ [][NextCache]_vars

\* ------------------------------------------- preprocess_image on its own
\* The largest side of the pictures preprocess_image is given.
MaxSide == 300

\* target_size of app.py and of app_enhanced.py preprocess_image.
TARGET_SIZE_APP == 150
TARGET_SIZE_ENHANCED == 224

target_size(a) ==
  IF a = "app" THEN <<TARGET_SIZE_APP, TARGET_SIZE_APP>>
  ELSE <<TARGET_SIZE_ENHANCED, TARGET_SIZE_ENHANCED>>

\* Decoded pictures of one colour: the sample pixels in every width and height.
Sides == {1, TARGET_SIZE_APP, TARGET_SIZE_ENHANCED, MaxSide}
PilImages ==
  {[mode |-> i.mode, data |-> i.data, size |-> <<w, h>>] :
     i \in SampleImages, w \in Sides, h \in Sides}

\* if image.mode != 'RGB': image = image.convert('RGB')
ensure_RGB(img) ==
  IF img.mode # "RGB"
  THEN [mode |-> "RGB", data |-> convert_RGB(img).data, size |-> img.size]
  ELSE img

\* image.resize(target_size): a picture of one colour keeps its colour.
Image_resize(img, size) == [img EXCEPT !.size = size]

\* np.array(image): height x width x bands of uint8; no band axis for the
\* one-band modes.
np_array(img) ==
  [shape |-> IF Len(img.data) = 1 THEN <<img.size[2], img.size[1]>>
             ELSE <<img.size[2], img.size[1], Len(img.data)>>,
   data |-> img.data]

\* utils.apply_clahe: cv2 returns a uint8 array of the same shape; which
\* values is left open between the extremes and the value itself.
apply_clahe(arr) ==
  {[shape |-> arr.shape, data |-> d] :
     d \in [DOMAIN arr.data -> {0, 255}] \cup {arr.data}}

\* The normalization without the division.
astype_float32_unscaled(arr) == [shape |-> arr.shape, num |-> arr.data, den |-> 1]

\* img_array.astype('float32') / 255.0: each value is num[c] / den.
astype_float32_div_255(arr) == [shape |-> arr.shape, num |-> arr.data, den |-> 255]

\* np.expand_dims(img_array, axis=0)
expand_dims(t) == [t EXCEPT !.shape = <<1>> \o t.shape]

\* The enhancement applied whenever it is asked for.
clahe_when_requested(use_clahe, clahe_available, utils_available) == use_clahe

\* if use_clahe and CLAHE_AVAILABLE and UTILS_AVAILABLE
clahe_applies(use_clahe, clahe_available, utils_available) ==
  use_clahe /\ clahe_available /\ utils_available

\* preprocess_image of either app: the results it can return, each with the
\* steps taken in order and the exception raised, if any. app.py has no
\* enhancement step; `from utils import apply_clahe` raises where utils or
\* cv2 cannot be imported.
preprocess_image(a, img, use_clahe, clahe_available, utils_available) ==
  LET rgb == ensure_RGB(img)
      resized == Image_resize(rgb, target_size(a))
      img_array == np_array(resized)
      first == (IF img.mode # "RGB" THEN <<"convert">> ELSE <<>>) \o <<"resize">>
      finish(arr, steps) ==
        [out |-> expand_dims(astype_float32_div_255(arr)),
         steps |-> steps \o <<"normalize", "expand_dims">>, raised |-> ""]
  IN IF a = "app_enhanced" /\ clahe_applies(use_clahe, clahe_available, utils_available)
     THEN IF clahe_available /\ utils_available
          THEN {finish(e, first \o <<"apply_clahe">>) : e \in apply_clahe(img_array)}
          ELSE {[out |-> NoTensor, steps |-> first \o <<"apply_clahe">>,
                 raised |-> "cannot import name 'apply_clahe'"]}
     ELSE {finish(img_array, first)}

InitPre ==
  /\ app \in {"app", "app_enhanced"}
  /\ HAS_CV2 = FALSE
  /\ UTILS_AVAILABLE \in (IF app = "app_enhanced" THEN BOOLEAN ELSE {FALSE})
  /\ CLAHE_AVAILABLE \in (IF app = "app_enhanced" /\ ~UTILS_AVAILABLE THEN BOOLEAN
                          ELSE {app = "app_enhanced"})
  /\ artifact = "good"
  /\ cache = NoEntry
  /\ load_log = <<>>
  /\ SessionsIdle
  /\ LoaderIdle
  /\ \E img \in PilImages, use \in BOOLEAN :
       /\ app = "app" => ~use
       /\ pre = [pc |-> "call", image |-> img, use_clahe |-> use, out |-> NoTensor,
                 steps |-> <<>>, raised |-> ""]
  /\ RunIdle

\* One call of preprocess_image(image, use_clahe=use_clahe).
PreprocessCall ==
  /\ pre.pc = "call"
  /\ \E r \in preprocess_image(app, pre.image, pre.use_clahe, CLAHE_AVAILABLE,
                                UTILS_AVAILABLE) :
       pre' = [pre EXCEPT !.pc = IF r.raised = "" THEN "returned" ELSE "raised",
                          !.out = r.out, !.steps = r.steps, !.raised = r.raised]
  /\ UNCHANGED <<Modules, Process, sess, lock, loader, Run>>

NextPre == PreprocessCall

SpecPre == InitPre /\ [][NextPre]_vars

\* ------------------------------------ model_loader.load_model_with_download
\* st.secrets.get("model", {}): reading the secrets raises, or the section
\* holds neither key, google_drive_id, huggingface_repo, or both.
SecretsStates == {"raises", "none", "google_drive", "huggingface", "both"}

\* A download: it raised, or it returned with the destination written, and
\* then what was written is a model keras loads or something it does not.
DownloadOutcomes == {"fail", "good", "corrupt"}

SecretsMessage == "No secrets found"

InitLoader ==
  /\ app = "model_loader"
  /\ HAS_CV2 = FALSE
  /\ UTILS_AVAILABLE = FALSE
  /\ CLAHE_AVAILABLE = FALSE
  /\ ProcessStart
  /\ SessionsIdle
  /\ PreIdle
  /\ \E sec \in SecretsStates, gd \in DownloadOutcomes, hf \in DownloadOutcomes :
       loader = [pc |-> "start", existed |-> FALSE, secrets |-> sec, gdrive |-> gd,
                 huggingface |-> hf, result |-> NotLoaded, escaped |-> "",
                 calls |-> <<>>, ui |-> <<>>]
  /\ RunIdle

LoaderFrame == <<Modules, cache, load_log, sess, lock, pre, Run>>

\* The function returns value v, having rendered the elements els.
LoaderReturns(l, v, els) ==
  [l EXCEPT !.pc = "returned", !.result = v, !.ui = l.ui \o els]

\* os.makedirs and `if os.path.exists(model_path)`.
LoaderExists ==
  /\ loader.pc = "start"
  /\ loader' = IF artifact # "absent"
               THEN [loader EXCEPT !.pc = "local_load", !.existed = TRUE]
               ELSE [loader EXCEPT !.pc = "secrets",
                       !.ui = Append(loader.ui,
                                El("info", "Model not found locally. Attempting download"))]
  /\ UNCHANGED <<artifact, LoaderFrame>>

\* The local file is loaded inside its own try block; an exception gives None.
LoaderLocalLoad ==
  /\ loader.pc = "local_load"
  /\ LET l == [loader EXCEPT !.calls = Append(loader.calls, "keras.load_model")]
     IN loader' = IF artifact = "good"
                  THEN LoaderReturns(l, ModelInstance(1),
                         << El("success", "Loading model from local storage..."),
                            El("success", "Model loaded successfully!") >>)
                  ELSE LoaderReturns(l, None,
                         << El("success", "Loading model from local storage..."),
                            El("error", "Error loading local model: " \o LoadErrorMessage) >>)
  /\ UNCHANGED <<artifact, LoaderFrame>>

\* The secrets are read and the source is chosen: Google Drive first, Hugging
\* Face only when no Google Drive id is there.
LoaderSecrets ==
  /\ loader.pc = "secrets"
  /\ loader' =
       CASE loader.secrets = "raises" ->
              LoaderReturns(loader, None,
                << El("warning", "Could not access secrets: " \o SecretsMessage),
                   El("markdown", "Model Setup Required") >>)
         [] loader.secrets \in {"google_drive", "both"} ->
              [loader EXCEPT !.pc = "google_drive",
                 !.ui = Append(loader.ui, El("info", "Downloading from Google Drive"))]
         [] loader.secrets = "huggingface" ->
              [loader EXCEPT !.pc = "huggingface",
                 !.ui = Append(loader.ui, El("info", "Downloading from Hugging Face"))]
         [] loader.secrets = "none" ->
              LoaderReturns(loader, None,
                << El("warning", "No model download configuration found in secrets."),
                   El("markdown", "Model Setup Required") >>)
  /\ UNCHANGED <<artifact, LoaderFrame>>

\* A loader that goes on to load whatever the download returned.
download_ignored(outcome) == TRUE

\* download_from_google_drive / download_from_huggingface: True unless the
\* download raised.
download_returns(outcome) == outcome # "fail"

\* `if download_from_...(...)`: after True the file is loaded; after False the
\* function runs off its end and returns None. The loader's next state.
after_download(l, outcome, name, message) ==
  LET called == [l EXCEPT !.calls = Append(l.calls, name)]
  IN IF download_returns(outcome)
     THEN [called EXCEPT !.pc = "downloaded_load",
                         !.calls = Append(called.calls, "download returned True"),
                         !.ui = Append(called.ui,
                                  El("success", "Model downloaded successfully!"))]
     ELSE LoaderReturns(called, None, << El("error", message) >>)

\* The file a download leaves at the destination.
written(art, outcome) == IF outcome = "fail" THEN art ELSE outcome

LoaderGoogleDrive ==
  /\ loader.pc = "google_drive"
  /\ loader' = after_download(loader, loader.gdrive, "download_from_google_drive",
                              "Error downloading from Google Drive")
  /\ artifact' = written(artifact, loader.gdrive)
  /\ UNCHANGED LoaderFrame

LoaderHuggingFace ==
  /\ loader.pc = "huggingface"
  /\ loader' = after_download(loader, loader.huggingface, "download_from_huggingface",
                              "Error downloading from Hugging Face")
  /\ artifact' = written(artifact, loader.huggingface)
  /\ UNCHANGED LoaderFrame

\* A load of the downloaded file whose exception nothing catches.
downloaded_load_uncaught(art) ==
  IF art = "good" THEN [value |-> ModelInstance(1), escaped |-> "", messages |-> <<>>]
  ELSE [value |-> NotLoaded, escaped |-> LoadErrorMessage, messages |-> <<>>]

\* keras.models.load_model of the downloaded file, inside the try block that
\* reads the secrets: its exception ends in that block's handler.
downloaded_load(art) ==
  IF art = "good" THEN [value |-> ModelInstance(1), escaped |-> "", messages |-> <<>>]
  ELSE [value |-> None, escaped |-> "",
        messages |-> << El("warning", "Could not access secrets: " \o LoadErrorMessage),
                        El("markdown", "Model Setup Required") >>]

LoaderDownloadedLoad ==
  /\ loader.pc = "downloaded_load"
  /\ LET r == downloaded_load(artifact)
         l == [loader EXCEPT !.calls = Append(loader.calls, "keras.load_model"),
                             !.escaped = r.escaped]
     IN loader' = IF r.escaped = "" THEN LoaderReturns(l, r.value, r.messages)
                  ELSE [l EXCEPT !.pc = "escaped"]
  /\ UNCHANGED <<artifact, LoaderFrame>>

NextLoader ==
  \/ LoaderExists
  \/ LoaderLocalLoad
  \/ LoaderSecrets
  \/ LoaderGoogleDrive
  \/ LoaderHuggingFace
  \/ LoaderDownloadedLoad

SpecLoader == InitLoader /\ [][NextLoader]_vars

\* ===================================================== the properties
\* The binary app has a result: predict_disease returned in this run.
BinaryPredicted == app = "app" /\ result.label # ""

\* The enhanced app has a result: predict_disease returned in this run.
EnhPredicted == app = "app_enhanced" /\ result.label # ""

\* C1: in the binary app the label is "Diseased" exactly when the model's
\* output p is above one half (p = 1/2 gives "Healthy"); the confidence is p
\* for Diseased and 1 - p for Healthy; the third result is p itself.
C1_BinaryThreshold ==
  BinaryPredicted =>
    LET p == predictions[1]
    IN /\ result.label \in {"Diseased", "Healthy"}
       /\ (result.label = "Diseased") <=> (2 * p > Denom)
       /\ (2 * p = Denom) => (result.label = "Healthy")
       /\ (result.label = "Diseased") => (result.confidence = p)
       /\ (result.label = "Healthy") => (result.confidence = Denom - p)
       /\ (p = 12 /\ Denom = 100) => (result.label = "Healthy" /\ result.confidence = 88)
       /\ result.raw = p

\* C1 witness: the model answered exactly one half and the label is Healthy.
C1_Witness ==
  /\ BinaryPredicted
  /\ 2 * predictions[1] = Denom
  /\ result.label = "Healthy"
  /\ result.confidence = Denom - predictions[1]

\* Index i holds the largest score of the vector the model returned.
IsTop(i) == \A j \in DOMAIN predictions : predictions[j] <= predictions[i]

\* Index i is the smallest index that holds the largest score.
IsFirstTop(i) ==
  /\ IsTop(i)
  /\ \A j \in 0..(i - 1) : predictions[j] < predictions[i]

\* C2: in the enhanced app the label is the class of the smallest index that
\* attains the largest score, and the confidence is that score; with equal
\* maxima at indices 3 and 7 the label of index 3 is chosen.
C2_ArgmaxFirstIndex ==
  EnhPredicted =>
    /\ DOMAIN predictions = 0..(NumClasses - 1)
    /\ \E i \in DOMAIN predictions :
         /\ result.label = CLASS_LABELS[i + 1]
         /\ result.confidence = predictions[i]
         /\ IsFirstTop(i)
    /\ (predictions[3] = predictions[7] /\ IsTop(3))
         => result.label = CLASS_LABELS[3 + 1]

\* C2 witness: indices 3 and 7 both hold the largest score and index 3 wins.
C2_Witness ==
  /\ EnhPredicted
  /\ predictions[3] = predictions[7]
  /\ IsTop(7)
  /\ result.label = "Apple___healthy"
  /\ result.confidence = predictions[3]

\* The condition each class label names: the text after "___", as the table
\* writes it.
condition_of == [i \in 0..(NumClasses - 1) |-> split(CLASS_LABELS[i + 1], "___")[2]]

\* The disease-info entry whose key the condition of class i contains.
table_entry_of == [i \in 0..(NumClasses - 1) |-> get_disease_info(condition_of[i])]

\* The class is a diseased one whose condition names a key of the table.
NamesTableDisease(i) ==
  /\ lower(condition_of[i]) # "healthy"
  /\ table_entry_of[i] # NotAvailable

\* The disease information section has been rendered in this run.
InfoRendered == app = "app_enhanced" /\ disease_info # NoInfo

\* C3: when the predicted class is a diseased one whose condition names a
\* disease of the table, the description and treatment shown are that
\* disease's entry, not the "not available" text.
C3_InfoIsTableEntry ==
  InfoRendered =>
    \A i \in 0..(NumClasses - 1) :
      (result.label = CLASS_LABELS[i + 1] /\ NamesTableDisease(i))
        => disease_info = table_entry_of[i]

\* Index i alone holds the largest score.
IsOnlyTop(i) ==
  \A j \in DOMAIN predictions : j # i => predictions[j] < predictions[i]

\* C4 as stated: the table has 38 entries and a vector whose only maximum is
\* at index 27 gives plant "Tomato" and disease "Bacterial spot".
C4_Index27IsBacterialSpot ==
  /\ Len(CLASS_LABELS) = 38
  /\ (EnhPredicted /\ IsOnlyTop(27))
       => (plant_name = "Tomato" /\ disease_name = "Bacterial spot")

\* C4 amended: the table has 38 entries and "Tomato___Bacterial_spot" is at
\* index 28 (from 0): a vector whose only maximum is at index 28 gives plant
\* "Tomato" and disease "Bacterial spot"; index 27 is "Strawberry___healthy"
\* and gives plant "Strawberry" and disease "healthy".
C4_Index28IsBacterialSpot ==
  /\ Len(CLASS_LABELS) = 38
  /\ (EnhPredicted /\ IsOnlyTop(28))
       => /\ result.label = "Tomato___Bacterial_spot"
          /\ plant_name = "Tomato"
          /\ disease_name = "Bacterial spot"
  /\ (EnhPredicted /\ IsOnlyTop(27))
       => /\ result.label = "Strawberry___healthy"
          /\ plant_name = "Strawberry"
          /\ disease_name = "healthy"

\* C4 witness: index 28 alone holds the largest score and the result names
\* the tomato disease.
C4_Witness ==
  /\ EnhPredicted
  /\ IsOnlyTop(28)
  /\ plant_name = "Tomato"
  /\ disease_name = "Bacterial spot"

\* The keys, by position in the table, whose lower-cased form is part of the
\* lower-cased name.
MatchingKeys(name) ==
  LET n == lower(name)
  IN {k \in 1..Len(disease_info_table) : Contains(lower(disease_info_table[k].key), n)}

\* C5: get_disease_info returns, for every name, the entry of the first key in
\* the table's order whose lower-cased form is part of the lower-cased name,
\* and the generic "not available" pair when no key is; what a call returns is
\* always a description and treatment pair.
C5_FirstKeyOrNotAvailable ==
  (app = "utils" /\ pc = "info_done") =>
    LET ks == MatchingKeys(disease_name)
    IN /\ DOMAIN disease_info = {"description", "treatment"}
       /\ ks = {} =>
            /\ disease_info.description = "Disease information not available."
            /\ disease_info.treatment
                 = "Consult with a local agricultural extension service."
       /\ ks # {} =>
            \E k \in ks :
              /\ \A j \in ks : k <= j
              /\ disease_info = InfoOf(disease_info_table[k])
       /\ disease_name = "Unknown_Condition_XYZ" => ks = {}

\* C5 witness: a name two keys are part of gets the entry of the earlier key.
C5_Witness ==
  /\ app = "utils" /\ pc = "info_done"
  /\ disease_name = "healthy/Late_blight"
  /\ disease_info.description
       = "A serious disease causing water-soaked lesions and plant death."

\* The Top 5 list has been rendered in this run.
Top5Rendered == app = "app_enhanced" /\ Len(top_5_idx) = 5

\* C6: the Top 5 list holds the five classes of highest probability, in
\* descending order of probability, and of two listed classes of equal
\* probability the one with the smaller index comes first.
C6_Top5TiesBySmallerIndex ==
  Top5Rendered =>
    /\ \A m, n \in 1..5 : m # n => top_5_idx[m] # top_5_idx[n]
    /\ \A j \in DOMAIN predictions :
         (\A n \in 1..5 : top_5_idx[n] # j)
           => predictions[j] <= predictions[top_5_idx[5]]
    /\ \A n \in 1..4 : predictions[top_5_idx[n]] >= predictions[top_5_idx[n + 1]]
    /\ \A n \in 1..4 :
         predictions[top_5_idx[n]] = predictions[top_5_idx[n + 1]]
           => top_5_idx[n] < top_5_idx[n + 1]

\* C7: the image load_uploaded_image returns is in mode RGB whatever the mode
\* of the file, and no image of another mode is displayed.
C7_DecoderReturnsRGB ==
  app = "app" =>
    /\ image # NoImage => image.mode = "RGB"
    /\ \A n \in DOMAIN ui : ui[n].kind = "image" => ui[n].text = "RGB"

\* The call c has been made in this run.
Called(c) == \E n \in DOMAIN calls : calls[n] = c

\* How often the call c has been made in this run.
TimesCalled(c) == Cardinality({n \in DOMAIN calls : calls[n] = c})

\* C8: an upload of no bytes is rejected with an error and neither the PIL
\* nor the OpenCV attempt is started in that run.
C8_EmptyRejectedBeforeDecoding ==
  (app = "app" /\ uploaded_file # NoFile /\ uploaded_file.size = 0) =>
    /\ ~Called("PIL.Image.open")
    /\ ~Called("cv2.imdecode")
    /\ image = NoImage
    /\ pc \in {"read", "stopped"}
    /\ pc = "stopped" =>
         /\ raised = "Uploaded file is empty"
         /\ \E n \in DOMAIN ui :
              ui[n] = El("error", "Error loading image: Uploaded file is empty")

\* C8 witness: the empty upload has been read and rejected; the only call
\* made after the model load is the read.
C8_Witness ==
  /\ app = "app"
  /\ uploaded_file.size = 0
  /\ pc = "stopped"
  /\ calls = <<"load_model", "read">>
  /\ raised = "Uploaded file is empty"

\* load_uploaded_image has ended, one way or the other, on a file with bytes.
LoadEnded ==
  /\ app = "app"
  /\ uploaded_file # NoFile
  /\ uploaded_file.size > 0
  /\ pc \in {"show", "predict", "done", "stopped"}

\* C9: the OpenCV attempt is made only after the PIL attempt failed, never
\* after it succeeded; loading fails exactly when both attempts fail, and then
\* one error is reported whose text holds both failure messages; an image the
\* fallback decodes is returned in R, G, B order.
C9_FallbackProtocol ==
  app = "app" =>
    /\ TimesCalled("PIL.Image.open") <= 1
    /\ TimesCalled("cv2.imdecode") <= 1
    /\ Called("cv2.imdecode") =>
         /\ \E m, n \in DOMAIN calls :
              m < n /\ calls[m] = "PIL.Image.open" /\ calls[n] = "cv2.imdecode"
         /\ ~uploaded_file.pil
         /\ pil_err # ""
    /\ (Called("PIL.Image.open") /\ uploaded_file.pil) => ~Called("cv2.imdecode")
    /\ LoadEnded =>
         /\ (pc = "stopped") <=>
              (/\ Called("PIL.Image.open") /\ ~uploaded_file.pil
               /\ Called("cv2.imdecode") /\ ~(HAS_CV2 /\ uploaded_file.cv))
         /\ pc = "stopped" =>
              /\ Contains(pil_err, raised)
              /\ Contains(CvMessage(HAS_CV2), raised)
              /\ Cardinality({n \in DOMAIN ui : ui[n].kind = "error"
                                 /\ Contains(raised, ui[n].text)}) = 1
         /\ (pc # "stopped" /\ Called("cv2.imdecode")) =>
              /\ image.mode = "RGB"
              /\ image.data = convert_RGB(uploaded_file.img).data

\* C9 witness: both attempts were made and failed, and the error names both.
C9_Witness ==
  /\ app = "app"
  /\ pc = "stopped"
  /\ calls = <<"load_model", "read", "PIL.Image.open", "cv2.imdecode">>
  /\ raised = "PIL error: cannot identify image file; "
                \o "OpenCV error: OpenCV failed to decode image"

\* C10: in the binary app a run whose image failed to decode never calls
\* preprocess_image or model.predict; in the enhanced app a run whose
\* prediction raised renders neither the disease information nor the Top 5;
\* the failure is reported, the run ends there, and no step is made twice.
C10_FailureEndsTheRun ==
  /\ \A c \in {"PIL.Image.open", "cv2.imdecode", "preprocess_image", "model.predict"} :
       TimesCalled(c) <= 1
  /\ (app = "app" /\ raised \notin {"", PredictMessage}) =>
       /\ pc = "stopped"
       /\ ~Called("preprocess_image")
       /\ ~Called("model.predict")
       /\ result = NoResult
       /\ \E n \in DOMAIN ui : ui[n] = El("error", "Error loading image: " \o raised)
  /\ (app = "app" /\ raised = PredictMessage) =>
       /\ pc = "done"
       /\ result = NoResult
       /\ \E n \in DOMAIN ui : ui[n] = El("error", "Error during prediction: " \o raised)
  /\ (app = "app_enhanced" /\ raised = PredictMessage) =>
       /\ pc = "done"
       /\ ~Called("get_disease_info")
       /\ ~Called("np.argsort")
       /\ disease_info = NoInfo
       /\ top_5_idx = <<>>
       /\ \A n \in DOMAIN ui : ui[n].kind \notin {"description", "treatment", "top5"}
       /\ \E n \in DOMAIN ui : ui[n] = El("error", "Error during prediction: " \o raised)

\* C10 witness: the enhanced app's prediction raised; the run has ended with
\* the error shown and nothing after it.
C10_Witness ==
  /\ app = "app_enhanced"
  /\ raised = PredictMessage
  /\ pc = "done"
  /\ ui[Len(ui)].kind = "exception"

\* The model objects the load function has built so far.
Deserializations == {n \in DOMAIN load_log : load_log[n] = "loaded"}

\* C11: however the sessions' first calls of the cached load function
\* interleave and however many requests follow, the function runs at most
\* once, the model is deserialized at most once, and every caller that has
\* returned holds the one cached value.
C11_ModelBuiltAtMostOnce ==
  /\ Len(load_log) <= 1
  /\ Cardinality(Deserializations) <= 1
  /\ cache.hit => Len(load_log) = 1
  /\ \A t \in DOMAIN sess :
       sess[t].pc = "returned" => (cache.hit /\ sess[t].model = cache.value)
  /\ \A t, u \in DOMAIN sess :
       (sess[t].pc = "returned" /\ sess[u].pc = "returned")
         => sess[t].model = sess[u].model

\* C11 witness: one session has built the model and not stored it yet while
\* the other two, which also missed the cache, wait for the lock.
C11_Witness ==
  /\ DOMAIN sess = Sessions
  /\ \E t \in Sessions :
       /\ sess[t].pc = "write"
       /\ sess[t].model = ModelInstance(1)
       /\ \A u \in Sessions \ {t} : sess[u].pc = "miss"

\* The first execution of the load function produced no model.
LoadFailed == Len(load_log) >= 1 /\ load_log[1] \in {"not_found", "load_error"}

C13_NoErrorEscapesMain ==
  /\ pc # "crashed"
  /\ raised # "" =>
       \E n \in DOMAIN ui : ui[n].kind = "error" /\ Contains(raised, ui[n].text)

\* The run has got None from load_model() and has ended.
EndedWithoutModel == model = None /\ pc \in {"stopped", "done"} /\ LoadFailed

\* C14: a file that is there but cannot be deserialized gives the caller an
\* outcome other than the one for a missing file, and each failure is reported
\* as what it is: a load error is not reported as a missing file, nor a
\* missing file as a load error.
C14_LoadFailureKindsDistinct ==
  EndedWithoutModel =>
    /\ load_log[1] = "load_error" =>
         /\ model # app_load_model("absent", 1).value
         /\ \A n \in DOMAIN ui : ~Contains("not found", ui[n].text)
    /\ load_log[1] = "not_found" =>
         \A n \in DOMAIN ui : ~Contains("Error loading model", ui[n].text)

\* The steps s occur in the order of t, each at most once.
RECURSIVE InOrder(_, _)
InOrder(s, t) ==
  IF s = <<>> THEN TRUE
  ELSE IF t = <<>> THEN FALSE
  ELSE IF Head(s) = Head(t) THEN InOrder(Tail(s), Tail(t))
  ELSE InOrder(s, Tail(t))

\* C15: for a picture of any size and mode preprocess_image returns a tensor
\* of shape [1, 150, 150, 3] in the binary app and [1, 224, 224, 3] in the
\* enhanced one, every value an 8-bit value over 255 and so within [0, 1]; the
\* steps come in the order conversion, resize, enhancement, normalization,
\* batch axis.
C15_TensorShapeAndRange ==
  pre.pc \in {"returned", "raised"} =>
    /\ pre.pc = "returned"
    /\ pre.out.shape = <<1, target_size(app)[2], target_size(app)[1], 3>>
    /\ pre.out.shape[2] = (IF app = "app" THEN 150 ELSE 224)
    /\ pre.out.den = 255
    /\ DOMAIN pre.out.num = 1..3
    /\ \A c \in DOMAIN pre.out.num :
         pre.out.num[c] \in 0..255 /\ pre.out.num[c] <= pre.out.den
    /\ InOrder(pre.steps,
               <<"convert", "resize", "apply_clahe", "normalize", "expand_dims">>)
    /\ \A st \in {"resize", "normalize", "expand_dims"} :
         \E n \in DOMAIN pre.steps : pre.steps[n] = st
    /\ (pre.image.mode # "RGB") <=> (pre.steps[1] = "convert")

\* C15 witness: a one-band picture larger than the target has been turned
\* into a tensor of the enhanced app's shape.
C15_Witness ==
  /\ app = "app_enhanced"
  /\ pre.pc = "returned"
  /\ pre.image.mode = "L"
  /\ pre.image.size = <<MaxSide, 1>>
  /\ pre.out.shape = <<1, 224, 224, 3>>
  /\ pre.out.num = <<128, 128, 128>>

\* What preprocess_image returns without the enhancement step.
PlainTensor ==
  expand_dims(astype_float32_div_255(
    np_array(Image_resize(ensure_RGB(pre.image), target_size(app)))))

\* The enhancement step was taken in the call.
ClaheApplied == \E n \in DOMAIN pre.steps : pre.steps[n] = "apply_clahe"

\* C16: the enhanced app's preprocess_image applies the enhancement exactly
\* when it is asked for and both cv2 and utils could be imported; in every
\* other case the call returns, without raising, what the pipeline without
\* the enhancement step returns.
C16_ClaheIffRequestedAndAvailable ==
  (app = "app_enhanced" /\ pre.pc \in {"returned", "raised"}) =>
    /\ ClaheApplied <=> (pre.use_clahe /\ CLAHE_AVAILABLE /\ UTILS_AVAILABLE)
    /\ ~ClaheApplied =>
         /\ pre.pc = "returned"
         /\ pre.raised = ""
         /\ pre.out = PlainTensor

\* C16 witness: the enhancement was asked for where cv2 is there and utils is
\* not; the call returned the plain tensor.
C16_Witness ==
  /\ app = "app_enhanced"
  /\ pre.pc = "returned"
  /\ pre.use_clahe /\ CLAHE_AVAILABLE /\ ~UTILS_AVAILABLE
  /\ ~ClaheApplied
  /\ pre.out = PlainTensor

\* The loader has made the call c.
LoaderCalled(c) == \E n \in DOMAIN loader.calls : loader.calls[n] = c

\* C17: load_model_with_download deserializes only a file that was there
\* when it started or that a configured download returned True for before
\* the load; with no download configured, or after a download that returned
\* False, it never deserializes and returns None.
C17_LoadOnlyWithArtifactInPlace ==
  app = "model_loader" =>
    /\ \A n \in DOMAIN loader.calls :
         loader.calls[n] = "keras.load_model" =>
           \/ loader.existed
           \/ /\ loader.secrets \in {"google_drive", "huggingface", "both"}
              /\ \E m \in 1..(n - 1) : loader.calls[m] = "download returned True"
    /\ LoaderCalled("download returned True") =>
         IF loader.secrets = "huggingface" THEN loader.huggingface # "fail"
         ELSE loader.gdrive # "fail"
    /\ (/\ loader.pc \in {"returned", "escaped"}
        /\ ~loader.existed
        /\ \/ loader.secrets \in {"none", "raises"}
           \/ loader.secrets \in {"google_drive", "both"} /\ loader.gdrive = "fail"
           \/ loader.secrets = "huggingface" /\ loader.huggingface = "fail")
         => /\ ~LoaderCalled("keras.load_model")
            /\ loader.pc = "returned"
            /\ loader.result = None

\* C17 witness: no local file, a Google Drive download that returned True,
\* and then the load of the downloaded file.
C17_Witness ==
  /\ app = "model_loader"
  /\ ~loader.existed
  /\ loader.pc = "returned"
  /\ loader.calls = <<"download_from_google_drive", "download returned True",
                       "keras.load_model">>
  /\ loader.result = ModelInstance(1)

\* C18: load_model_with_download ends on every path by returning a model or
\* None, no exception leaving it: an unloadable local file, unreadable
\* secrets, a failed download and an unloadable downloaded file all give
\* None; and after a failed Google Drive download Hugging Face is not tried.
C18_ModelOrNoneNeverRaises ==
  app = "model_loader" =>
    /\ loader.pc # "escaped"
    /\ loader.escaped = ""
    /\ loader.pc = "returned" =>
         /\ loader.result \in {None, ModelInstance(1)}
         /\ loader.result = ModelInstance(1) <=>
              (LoaderCalled("keras.load_model") /\ artifact = "good")
         /\ (loader.existed /\ artifact = "corrupt") => loader.result = None
         /\ (~loader.existed /\ loader.secrets = "raises") => loader.result = None
         /\ (LoaderCalled("keras.load_model") /\ artifact = "corrupt")
              => loader.result = None
    /\ (LoaderCalled("download_from_google_drive") /\ loader.gdrive = "fail")
         => /\ ~LoaderCalled("download_from_huggingface")
            /\ loader.pc = "returned" /\ loader.result = None
    /\ (LoaderCalled("download_from_huggingface") /\ loader.huggingface = "fail")
         => loader.pc = "returned" /\ loader.result = None

\* C18 witness: the downloaded file could not be deserialized; the exception
\* was caught and the function returned None.
C18_Witness ==
  /\ app = "model_loader"
  /\ loader.pc = "returned"
  /\ loader.calls = <<"download_from_huggingface", "download returned True",
                       "keras.load_model">>
  /\ artifact = "corrupt"
  /\ loader.result = None
  /\ loader.escaped = ""

\* C19: the first entry of the Top 5 list is the class of the headline label
\* predict_disease returned, tied maxima included, and the list holds five
\* different class indices.
C19_Top5HeadIsHeadline ==
  Top5Rendered =>
    /\ LabelAt(top_5_idx[1]) = result.label
    /\ top_5_idx[1] = np_argmax(predictions)
    /\ Cardinality({top_5_idx[n] : n \in 1..5}) = 5
====
